---------------------------- MODULE Spec2Model ----------------------------
(***************************************************************************)
(* State-machine model of the BlueBus bootloader protocol:                 *)
(*   firmware/bootloader/lib/uart.c      circular receive queue            *)
(*   firmware/bootloader/lib/protocol.c  packet codec, flash engine,       *)
(*                                       serial-number provisioning        *)
(* The headers (uart.h, protocol.h, the linker constants) are not part of  *)
(* the sources at hand; the constants they define are taken from the       *)
(* written specification and scaled where the state space requires it.     *)
(***************************************************************************)
EXTENDS Integers, Sequences, FiniteSets, TLC

(***************************************************************************)
(* Bounds of the model (inputs only).                                      *)
(***************************************************************************)
\* received bytes are drawn from 0..MaxByte
MaxByte == 3
\* payloads handed to ProtocolSendPacket hold 0..MaxPayload bytes
MaxPayload == 2
\* WRITE_DATA and WRITE_SN requests handled in one run
MaxRequests == 2
\* a WRITE_DATA packet carries 0..MaxWriteLen bytes after its address
MaxWriteLen == 7
\* TimerGetMillis() returns 0..MaxMillis
MaxMillis == 1

(***************************************************************************)
(* Program constants defined in headers.                                   *)
(***************************************************************************)
\* uart.h: capacity of rxQueue (scaled down)
UART_RX_QUEUE_SIZE == 3
\* protocol.h: bytes of a frame that are not payload, as the decoder counts
PROTOCOL_CONTROL_PACKET_SIZE == 2
\* protocol.h: offset of the first payload byte in an outbound frame
PROTOCOL_DATA_INDEX_BEGIN == 2
PROTOCOL_PACKET_STATUS_BAD == "BAD"
PROTOCOL_PACKET_STATUS_INCOMPLETE == "INCOMPLETE"
PROTOCOL_PACKET_STATUS_OK == "OK"

\* protocol.h: the commands
PROTOCOL_CMD_WRITE_DATA == 3
PROTOCOL_CMD_WRITE_SN == 6
PROTOCOL_CMD_WRITE_DATA_RESPONSE_OK == 4
PROTOCOL_CMD_WRITE_DATA_RESPONSE_ERR == 5
PROTOCOL_CMD_WRITE_SN_RESPONSE_OK == 7
PROTOCOL_CMD_WRITE_SN_RESPONSE_ERR == 8
\* the board header: the values of a selector of the tri-state buffer
UART_SEL_MODE_DISABLE == "DISABLE"
UART_SEL_MODE_ENABLE == "ENABLE"
\* the device header: _FLASH_ROW (scaled down); a page spans
\* _FLASH_ROW * 16 addresses
FLASH_ROW == 1
\* the memory map (scaled down): the bootloader occupies
\* [BOOTLOADER_BOOTLOADER_START, BOOTLOADER_APPLICATION_START)
BOOTLOADER_BOOTLOADER_START == 16
BOOTLOADER_APPLICATION_START == 32
BOOTLOADER_APPLICATION_END == 47
\* the word an erased address reads as (0xFFFFFF)
FLASH_ERASED == 16777215

\* A memory cell that no statement has assigned yet (an automatic variable
\* without initialiser): reading it yields an arbitrary byte.
UNINIT == -1

(***************************************************************************)
(* 8-bit arithmetic.                                                       *)
(***************************************************************************)
U8(x) == x % 256

RECURSIVE Pow2(_)
Pow2(n) == IF n = 0 THEN 1 ELSE 2 * Pow2(n - 1)

\* bit k of x
Bit(x, k) == (x \div Pow2(k)) % 2

\* the C operator ^ on two uint8_t values
Xor(a, b) ==
      ((Bit(a, 0) + Bit(b, 0)) % 2)
    + ((Bit(a, 1) + Bit(b, 1)) % 2) * 2
    + ((Bit(a, 2) + Bit(b, 2)) % 2) * 4
    + ((Bit(a, 3) + Bit(b, 3)) % 2) * 8
    + ((Bit(a, 4) + Bit(b, 4)) % 2) * 16
    + ((Bit(a, 5) + Bit(b, 5)) % 2) * 32
    + ((Bit(a, 6) + Bit(b, 6)) % 2) * 64
    + ((Bit(a, 7) + Bit(b, 7)) % 2) * 128

\* bit k of bytes[1] ^ ... ^ bytes[n]: the parity of the bytes with bit k set
ParityBit(bytes, k) ==
    Cardinality({i \in 1 .. Len(bytes) : Bit(bytes[i], k) = 1}) % 2

\* chk ^ bytes[1] ^ ... ^ bytes[n], as the loops over a payload compute it
XorAll(chk, bytes) ==
    Xor(chk,
          ParityBit(bytes, 0)      + ParityBit(bytes, 1) * 2
        + ParityBit(bytes, 2) * 4  + ParityBit(bytes, 3) * 8
        + ParityBit(bytes, 4) * 16 + ParityBit(bytes, 5) * 32
        + ParityBit(bytes, 6) * 64 + ParityBit(bytes, 7) * 128)

(***************************************************************************)
(* State.                                                                  *)
(***************************************************************************)
VARIABLES
    uart,      \* UART_t: rxQueue, rxQueueSize, rxQueueReadCursor,
               \*         rxQueueWriteCursor, rxLastTimestamp
    ret,       \* observation: the last call and what it returned
    fifo,      \* observation: bytes stored by UARTReadData and not yet
               \*              taken out, oldest first
    underrun,  \* observation: a byte was taken from the empty queue since
               \*              the queue was last reset
    req,       \* the arguments of the last ProtocolSendPacket call on the
               \* far end of the link (command, data, dataSize)
    tx,        \* the frames written to uxtxreg by the last handler, in
               \* order; each frame is the sequence of its bytes
    line,      \* bytes on the wire that the receiver has not read yet
    flip,      \* the bit the wire inverted: [index, bit]; index 0: none
    flash,     \* program memory: the 24-bit word at each address
    eeprom,    \* the EEPROM cells CONFIG_SN_MSB and CONFIG_SN_LSB
    packet,    \* the ProtocolPacket_t handed to the running handler
    fw,        \* ProtocolFlashWrite: where it is (pc) and its locals
               \* address, index, flashRes
    nvmLog,    \* observation: the flash and EEPROM operations of the
               \* handler that ran last, in order
    session,   \* observation: requests handled, and calls of
               \* ProtocolFlashErase since the last hardware reset
    sel        \* the tri-state buffer selectors UART_SEL_MCU_MODE and
               \* UART_SEL_BT_MODE

uartVars == <<uart, ret, fifo, underrun>>
linkVars == <<req, tx, line, flip>>
nvmVars == <<flash, eeprom, packet, fw, nvmLog, session>>
vars == <<uart, ret, fifo, underrun, req, tx, line, flip,
          flash, eeprom, packet, fw, nvmLog, session, sel>>

Slots == 0 .. (UART_RX_QUEUE_SIZE - 1)

\* the byte a read of rxQueue[i] yields; g is the arbitrary byte an
\* unassigned cell reads as
ReadSlot(u, i, g) == IF u.rxQueue[i] = UNINIT THEN g ELSE u.rxQueue[i]

(***************************************************************************)
(* uart.c                                                                  *)
(***************************************************************************)
\* UARTResetRxQueue: size and cursors zeroed, storage untouched
UARTResetRxQueue(u) ==
    [u EXCEPT !.rxQueueSize = 0,
              !.rxQueueWriteCursor = 0,
              !.rxQueueReadCursor = 0]

\* UARTInit leaves every field of the UART_t it returns unassigned; the
\* queue is emptied with UARTResetRxQueue before use.
UARTInit ==
    UARTResetRxQueue(
        [rxQueue            |-> [i \in Slots |-> UNINIT],
         rxQueueSize        |-> UNINIT,
         rxQueueReadCursor  |-> UNINIT,
         rxQueueWriteCursor |-> UNINIT,
         rxLastTimestamp    |-> UNINIT])

\* UARTGetNextByte with the wrap test off by one
UARTGetNextByte_LateWrap(u, g) ==
    LET data == ReadSlot(u, u.rxQueueReadCursor, g)
        rc   == u.rxQueueReadCursor + 1
    IN  [data |-> data,
         uart |-> [u EXCEPT
                     !.rxQueue[u.rxQueueReadCursor] = 0,
                     !.rxQueueReadCursor =
                         IF rc > UART_RX_QUEUE_SIZE THEN 0 ELSE rc,
                     !.rxQueueSize =
                         IF u.rxQueueSize > 0 THEN u.rxQueueSize - 1
                                              ELSE u.rxQueueSize]]

\* UARTGetNextByte: the byte at the read cursor; the slot is zeroed, the
\* cursor advanced with wraparound, the size decremented unless zero
UARTGetNextByte(u, g) ==
    LET data == ReadSlot(u, u.rxQueueReadCursor, g)
        rc   == u.rxQueueReadCursor + 1
    IN  [data |-> data,
         uart |-> [u EXCEPT
                     !.rxQueue[u.rxQueueReadCursor] = 0,
                     !.rxQueueReadCursor =
                         IF rc >= UART_RX_QUEUE_SIZE THEN 0 ELSE rc,
                     !.rxQueueSize =
                         IF u.rxQueueSize > 0 THEN u.rxQueueSize - 1
                                              ELSE u.rxQueueSize]]

RECURSIVE OffsetCursor(_, _)
OffsetCursor(cursor, offset) ==
    IF offset = 0 THEN cursor
    ELSE OffsetCursor(IF cursor + 1 >= UART_RX_QUEUE_SIZE THEN 0
                                                           ELSE cursor + 1,
                      offset - 1)

\* UARTGetOffsetByte: the byte offset positions past the read cursor
UARTGetOffsetByte(u, offset, g) ==
    ReadSlot(u, OffsetCursor(u.rxQueueReadCursor, offset), g)

\* the test on the overrun flag alone
HasErr_OverrunOnly(uxsta) == (uxsta \div 2) % 2 /= 0

\* the error bits of uxsta: OERR, FERR, PERR
HasErr(uxsta) == (uxsta \div 2) % 8 /= 0

\* uxsta after UARTReadData has cleared the overrun flag, if it was set
ClearOverrun(uxsta) ==
    IF (uxsta \div 2) % 2 = 1 THEN uxsta - 2 ELSE uxsta

\* the guard without its bound on the size
RxAccepts_NoBound(u, hasErr) == ~hasErr

\* the guard of the store in UARTReadData
RxAccepts(u, hasErr) ==
    u.rxQueueSize /= (UART_RX_QUEUE_SIZE + 1) /\ ~hasErr

\* UARTReadData with one byte pending in the receiver: byte is what
\* uxrxreg holds, uxsta the status register, now is TimerGetMillis().
\* The loop carries nothing but the UART_t from one pass to the next, so a
\* call that finds n bytes pending acts as n such calls in a row.
UARTReadData(u, byte, uxsta, now) ==
    IF RxAccepts(u, HasErr(uxsta))
        THEN LET wc == IF u.rxQueueWriteCursor = UART_RX_QUEUE_SIZE
                       THEN 0 ELSE u.rxQueueWriteCursor
             IN  [u EXCEPT !.rxQueue[wc] = byte,
                           !.rxQueueWriteCursor = wc + 1,
                           !.rxQueueSize = u.rxQueueSize + 1,
                           !.rxLastTimestamp = now]
        ELSE u

\* UARTSendData: the first length bytes of data, written to uxtxreg in order
UARTSendData(data, length) == SubSeq(data, 1, length)

(***************************************************************************)
(* protocol.c: packet codec                                                *)
(***************************************************************************)
\* ProtocolValidatePacket with the command byte left out of the checksum
ProtocolValidatePacket_NoCommand(pkt, validation) ==
    LET chk0 == U8(pkt.dataSize + PROTOCOL_CONTROL_PACKET_SIZE)
        chk1 == XorAll(chk0, SubSeq(pkt.data, 1, pkt.dataSize))
        chk  == Xor(chk1, validation)
    IN  IF chk = 0 THEN PROTOCOL_PACKET_STATUS_OK
                   ELSE PROTOCOL_PACKET_STATUS_BAD

\* ProtocolValidatePacket: the status for a packet and its checksum byte
ProtocolValidatePacket(pkt, validation) ==
    LET chk0 == Xor(pkt.command,
                    U8(pkt.dataSize + PROTOCOL_CONTROL_PACKET_SIZE))
        chk1 == XorAll(chk0, SubSeq(pkt.data, 1, pkt.dataSize))
        chk  == Xor(chk1, validation)
    IN  IF chk = 0 THEN PROTOCOL_PACKET_STATUS_OK
                   ELSE PROTOCOL_PACKET_STATUS_BAD

\* n calls of UARTGetNextByte in a row: the bytes returned, in order
RECURSIVE PopN(_, _, _)
PopN(u, n, g) ==
    IF n = 0 THEN [uart |-> u, data |-> <<>>]
    ELSE LET first == UARTGetNextByte(u, g)
             rest  == PopN(first.uart, n - 1, g)
         IN  [uart |-> rest.uart, data |-> <<first.data>> \o rest.data]

\* the for loop of ProtocolProcessPacket: data[i] for i below dataSize is
\* the next queued byte while rxQueueSize > 0, and zero after that
ReadPayload(u, dataSize, g) ==
    LET queued == IF dataSize < u.rxQueueSize THEN dataSize
                                              ELSE u.rxQueueSize
        taken  == PopN(u, queued, g)
    IN  [uart |-> taken.uart,
         data |-> taken.data \o [i \in 1 .. (dataSize - queued) |-> 0]]

\* the test with >= for ==: decoding starts on an overfull queue
FrameBuffered_AtLeast(u, g) ==
    /\ u.rxQueueSize >= 2
    /\ u.rxQueueSize >= UARTGetOffsetByte(u, 1, g)

\* the test that lets ProtocolProcessPacket start decoding
FrameBuffered(u, g) ==
    /\ u.rxQueueSize >= 2
    /\ u.rxQueueSize = UARTGetOffsetByte(u, 1, g)

\* ProtocolProcessPacket: the packet returned and the UART_t afterwards.
\* The fields of an INCOMPLETE packet other than status are unassigned.
ProtocolProcessPacket(u, g) ==
    IF FrameBuffered(u, g)
    THEN LET c   == UARTGetNextByte(u, g)
             l   == UARTGetNextByte(c.uart, g)
             dataSize == U8(l.data - PROTOCOL_CONTROL_PACKET_SIZE)
             d   == ReadPayload(l.uart, dataSize, g)
             v   == UARTGetNextByte(d.uart, g)
             pkt == [command |-> c.data, dataSize |-> dataSize,
                     data |-> d.data]
         IN  [uart   |-> v.uart,
              packet |-> [status   |-> ProtocolValidatePacket(pkt, v.data),
                          command  |-> pkt.command,
                          dataSize |-> pkt.dataSize,
                          data     |-> pkt.data]]
    ELSE [uart   |-> u,
          packet |-> [status   |-> PROTOCOL_PACKET_STATUS_INCOMPLETE,
                      command  |-> UNINIT,
                      dataSize |-> UNINIT,
                      data     |-> <<>>]]

\* the number of UARTGetNextByte calls ProtocolProcessPacket makes
PopsOfDecode(u, g) ==
    IF FrameBuffered(u, g)
    THEN LET dataSize ==
                 U8(UARTGetOffsetByte(u, 1, g) - PROTOCOL_CONTROL_PACKET_SIZE)
             avail == u.rxQueueSize - 2
         IN  2 + (IF dataSize < avail THEN dataSize ELSE avail) + 1
    ELSE 0

\* whether ProtocolProcessPacket calls UARTGetNextByte on the empty queue
Underruns(u, g) == PopsOfDecode(u, g) > u.rxQueueSize

\* the index of the array packet[] that receives the checksum
CrcIndex(length) == length - 1

\* ProtocolSendPacket: the bytes handed to UARTSendData, in order. data is
\* the caller's array (1-based here), read only when dataSize is not 0.
ProtocolSendPacket(command, data, dataSize) ==
    LET nullData == (dataSize = 0)
        size     == IF nullData THEN 1 ELSE dataSize
        length   == U8(size + PROTOCOL_DATA_INDEX_BEGIN)
        crc0     == Xor(Xor(0, command), length)
        copied   == IF nullData THEN <<0>>
                    ELSE [i \in 1 .. (length - 2) |-> data[i]]
        crc      == IF nullData THEN crc0 ELSE XorAll(crc0, copied)
        filled   == <<command, length>> \o copied
        sent     == [filled EXCEPT ![CrcIndex(length) + 1] = crc]
    IN  UARTSendData(sent, length)

(***************************************************************************)
(* protocol.c: mode control                                                *)
(***************************************************************************)
\* ProtocolBC127Mode with the MCU selector left enabled
ProtocolBC127Mode_McuLeftOn ==
    [UART_SEL_MCU_MODE |-> UART_SEL_MODE_ENABLE,
     UART_SEL_BT_MODE  |-> UART_SEL_MODE_ENABLE]

\* ProtocolBC127Mode: the selectors afterwards
ProtocolBC127Mode ==
    [UART_SEL_MCU_MODE |-> UART_SEL_MODE_DISABLE,
     UART_SEL_BT_MODE  |-> UART_SEL_MODE_ENABLE]

(***************************************************************************)
(* protocol.c: flash engine and serial-number provisioning                 *)
(***************************************************************************)
\* the addresses of program memory that hold an instruction word: the
\* even ones, up to the end of the application
FlashAddrs == {a \in 0 .. BOOTLOADER_APPLICATION_END : a % 2 = 0}

\* FlashErasePage: every address of the page that holds address is erased
FlashErasePage(f, address) ==
    LET base == address - (address % (FLASH_ROW * 16))
    IN  [a \in FlashAddrs |->
            IF a >= base /\ a < base + FLASH_ROW * 16 THEN FLASH_ERASED
                                                       ELSE f[a]]

\* FlashWriteDWORDAddress when it reports success: data is programmed at
\* address, data2 at address + 2
FlashWriteDWORDAddress(f, address, data, data2) ==
    [a \in FlashAddrs |->
        IF a = address THEN data
        ELSE IF a = address + 2 THEN data2
        ELSE f[a]]

\* the instruction ProtocolFlashErase programs at the reset vector
ResetInstruction == 262144 + BOOTLOADER_BOOTLOADER_START

\* the test with <= for <: the page at the start of the bootloader passes
ErasesPageAt_Inclusive(address) ==
    \/ address <= BOOTLOADER_BOOTLOADER_START
    \/ address >= BOOTLOADER_APPLICATION_START

\* the test of the loop of ProtocolFlashErase that lets a page be erased
ErasesPageAt(address) ==
    \/ address < BOOTLOADER_BOOTLOADER_START
    \/ address >= BOOTLOADER_APPLICATION_START

\* the while loop of ProtocolFlashErase from address on
RECURSIVE EraseLoop(_, _, _)
EraseLoop(f, log, address) ==
    IF address <= BOOTLOADER_APPLICATION_END
    THEN IF ErasesPageAt(address)
         THEN EraseLoop(FlashErasePage(f, address),
                        Append(log, [op |-> "erase", by |-> "erase",
                                     address |-> address]),
                        address + FLASH_ROW * 16)
         ELSE EraseLoop(f, log, address + FLASH_ROW * 16)
    ELSE [flash |-> f, log |-> log]

\* ProtocolFlashErase without the rewrite of the reset vector
ProtocolFlashErase_NoVector(f) ==
    EraseLoop(FlashErasePage(f, 0),
              <<[op |-> "erase", by |-> "erase", address |-> 0]>>,
              FLASH_ROW * 16)

\* ProtocolFlashErase: program memory afterwards, and the operations made
ProtocolFlashErase(f) ==
    LET erased  == FlashErasePage(f, 0)
        vector  == FlashWriteDWORDAddress(erased, 0, ResetInstruction, 0)
    IN  EraseLoop(vector,
                  <<[op |-> "erase", by |-> "erase", address |-> 0],
                    [op |-> "write", by |-> "erase", address |-> 0,
                     data |-> ResetInstruction, data2 |-> 0, ok |-> TRUE]>>,
                  FLASH_ROW * 16)

\* packet->data[i]; an element the decoder did not assign reads as g
DataByte(p, i, g) == IF i < Len(p.data) THEN p.data[i + 1] ELSE g

\* three bytes packed under a zero phantom byte
Pack(b2, b1, b0) == b2 * 65536 + b1 * 256 + b0

\* the address a WRITE_DATA packet starts at
WriteAddress(p, g) ==
    Pack(DataByte(p, 0, g), DataByte(p, 1, g), DataByte(p, 2, g))

\* the test without its clause for the reset vector
Protected_NoVector(address) ==
    /\ address >= BOOTLOADER_BOOTLOADER_START
    /\ address < BOOTLOADER_APPLICATION_START

\* the test with > for >= at the start of the bootloader
Protected_Exclusive(address) ==
    \/ (/\ address > BOOTLOADER_BOOTLOADER_START
        /\ address < BOOTLOADER_APPLICATION_START)
    \/ address < 4

\* the test of ProtocolFlashWrite that makes a stride be skipped
Protected(address) ==
    \/ (/\ address >= BOOTLOADER_BOOTLOADER_START
        /\ address < BOOTLOADER_APPLICATION_START)
    \/ address < 4

\* the test without its clause on the result of the last write
StrideLoopRuns_IgnoreResult(p, w) == w.index < p.dataSize

\* the test of the while loop of ProtocolFlashWrite
StrideLoopRuns(p, w) == w.index < p.dataSize /\ w.flashRes = 1

\* ProtocolFlashWrite up to its loop: the locals, program memory and the
\* operations made
FlashWriteEnter(f, p, g) ==
    LET address == WriteAddress(p, g)
        erase   == ProtocolFlashErase(f)
    IN  [fw    |-> [pc |-> "loop", address |-> address, index |-> 3,
                    flashRes |-> 1],
         flash |-> IF address = 0 THEN erase.flash ELSE f,
         log   |-> IF address = 0 THEN erase.log ELSE <<>>,
         erased |-> (address = 0)]

\* one pass of the loop of ProtocolFlashWrite; ok is whether
\* FlashWriteDWORDAddress, if called, reports success
FlashWriteStride(f, p, w, g, ok) ==
    IF Protected(w.address)
    THEN [fw    |-> [w EXCEPT !.address = w.address + 2,
                              !.index = U8(w.index + 3)],
          flash |-> f,
          log   |-> <<>>]
    ELSE LET data  == Pack(DataByte(p, w.index, g),
                           DataByte(p, w.index + 1, g),
                           DataByte(p, w.index + 2, g))
             data2 == Pack(DataByte(p, w.index + 3, g),
                           DataByte(p, w.index + 4, g),
                           DataByte(p, w.index + 5, g))
         IN  [fw    |-> [w EXCEPT !.flashRes = IF ok THEN 1 ELSE 0,
                                  !.index = U8(w.index + 6),
                                  !.address = w.address + 4],
              flash |-> IF ok
                        THEN FlashWriteDWORDAddress(f, w.address, data, data2)
                        ELSE f,
              log   |-> <<[op |-> "write", by |-> "stride",
                           address |-> w.address, data |-> data,
                           data2 |-> data2, ok |-> ok]>>]

\* the response ProtocolFlashWrite sends after its loop
FlashWriteResponse(w) ==
    IF w.flashRes = 1
    THEN ProtocolSendPacket(PROTOCOL_CMD_WRITE_DATA_RESPONSE_OK, <<>>, 0)
    ELSE ProtocolSendPacket(PROTOCOL_CMD_WRITE_DATA_RESPONSE_ERR, <<>>, 0)

\* the serial number ProtocolWriteSerialNumber reads from the EEPROM
SerialNumber(e) == e.CONFIG_SN_MSB * 256 + (e.CONFIG_SN_LSB % 256)

\* the test on the high byte alone
SerialNumberUnset_MsbOnly(e) == e.CONFIG_SN_MSB = 0

\* the test of ProtocolWriteSerialNumber that lets the EEPROM be written
SerialNumberUnset(e) == SerialNumber(e) = 0

\* ProtocolWriteSerialNumber: the EEPROM afterwards, the frame sent
ProtocolWriteSerialNumber(e, p, g) ==
    IF SerialNumberUnset(e)
    THEN [eeprom |-> [CONFIG_SN_MSB |-> DataByte(p, 0, g),
                      CONFIG_SN_LSB |-> DataByte(p, 1, g)],
          wrote  |-> TRUE,
          frame  |-> ProtocolSendPacket(PROTOCOL_CMD_WRITE_SN_RESPONSE_OK,
                                        <<>>, 0)]
    ELSE [eeprom |-> e,
          wrote  |-> FALSE,
          frame  |-> ProtocolSendPacket(PROTOCOL_CMD_WRITE_SN_RESPONSE_ERR,
                                        <<>>, 0)]

(***************************************************************************)
(* The transport and the decoder: the polling loop's calls, in any order.  *)
(***************************************************************************)
\* bytes the link delivers
RxBytes == 0 .. MaxByte
\* bytes an unassigned cell may read as; the choice matters only while
\* some cell of rxQueue is still unassigned
Garbage(u) ==
    IF \E i \in Slots : u.rxQueue[i] = UNINIT THEN 0 .. MaxByte ELSE {0}
\* uxsta when a byte is pending: URXDA alone, with OERR, with FERR
UxstaValues == {1, 3, 5}
\* what TimerGetMillis() may return: the timer does not run backwards
Times(u) ==
    {t \in 0 .. MaxMillis :
        u.rxLastTimestamp = UNINIT \/ t >= u.rxLastTimestamp}

\* the last n elements of s
LastN(s, n) ==
    IF n >= Len(s) THEN s ELSE SubSeq(s, Len(s) - n + 1, Len(s))

\* no ProtocolSendPacket call yet; no bit inverted
NoRequest == [sent |-> FALSE, command |-> 0, data |-> <<>>, dataSize |-> 0]
NoFlip == [index |-> 0, bit |-> 0]

UartInit ==
    /\ uart = UARTInit
    /\ ret = [op |-> "init"]
    /\ fifo = <<>>
    /\ underrun = FALSE

LinkIdle ==
    /\ req = NoRequest
    /\ tx = <<>>
    /\ line = <<>>
    /\ flip = NoFlip

\* UARTReadData finds byte b pending with status uxsta; TimerGetMillis is
\* called only when the byte is stored
ReadDataStep(b, uxsta) ==
    \E now \in (IF RxAccepts(uart, HasErr(uxsta)) THEN Times(uart)
                                                  ELSE {0}) :
        /\ uart' = UARTReadData(uart, b, uxsta, now)
        /\ fifo' = IF uart'.rxQueueSize > uart.rxQueueSize
                   THEN Append(fifo, b) ELSE fifo
        /\ ret' = [op |-> "read", uxsta |-> uxsta,
                   cleared |-> ClearOverrun(uxsta)]
        /\ UNCHANGED underrun

\* a call of ProtocolProcessPacket
ProcessPacketStep ==
    \E g \in Garbage(uart) :
        LET r == ProtocolProcessPacket(uart, g)
        IN  /\ uart' = r.uart
            /\ ret' = [op |-> "process", packet |-> r.packet, g |-> g]
            /\ fifo' = LastN(fifo, r.uart.rxQueueSize)
            /\ underrun' = (underrun \/ Underruns(uart, g))

\* program memory before the session: a word per address that no write
\* of the session produces
InitialFlash == [a \in FlashAddrs |-> 8388608 + a]

\* ProtocolFlashWrite is not running
FwIdle == [pc |-> "idle", address |-> 0, index |-> 0, flashRes |-> 1]

NoPacket == [command |-> 0, dataSize |-> 0, data |-> <<>>,
             status |-> PROTOCOL_PACKET_STATUS_INCOMPLETE]

NvmInit ==
    /\ flash = InitialFlash
    /\ eeprom = [CONFIG_SN_MSB |-> 0, CONFIG_SN_LSB |-> 0]
    /\ packet = NoPacket
    /\ fw = FwIdle
    /\ nvmLog = <<>>
    /\ session = [requests |-> 0, erases |-> 0, everErased |-> FALSE,
                  snWrites |-> 0]

\* the selectors after a hardware reset: the MCU drives the serial lines
SelAfterReset ==
    [UART_SEL_MCU_MODE |-> UART_SEL_MODE_ENABLE,
     UART_SEL_BT_MODE  |-> UART_SEL_MODE_DISABLE]

Init == UartInit /\ LinkIdle /\ NvmInit /\ sel = SelAfterReset

\* a byte read with an error bit set is dropped whatever it is
Receive ==
    /\ \E s \in UxstaValues :
          \E b \in (IF HasErr(s) THEN {0} ELSE RxBytes) : ReadDataStep(b, s)
    /\ UNCHANGED <<linkVars, nvmVars>>
    /\ UNCHANGED sel

GetNextByte ==
    /\ \E g \in Garbage(uart) :
          LET n == UARTGetNextByte(uart, g)
          IN  /\ uart' = n.uart
              /\ ret' = [op |-> "pop", byte |-> n.data,
                         oldest |-> IF fifo = <<>> THEN <<>>
                                                   ELSE <<Head(fifo)>>]
              /\ fifo' = IF fifo = <<>> THEN fifo ELSE Tail(fifo)
              /\ underrun' = (underrun \/ uart.rxQueueSize = 0)
    /\ UNCHANGED <<linkVars, nvmVars>>
    /\ UNCHANGED sel

GetOffsetByte ==
    /\ \E g \in Garbage(uart), offset \in 0 .. UART_RX_QUEUE_SIZE :
          ret' = [op |-> "peek",
                  byte |-> UARTGetOffsetByte(uart, offset, g)]
    /\ UNCHANGED <<uart, fifo, underrun>>
    /\ UNCHANGED <<linkVars, nvmVars>>
    /\ UNCHANGED sel

ResetRxQueue ==
    /\ uart' = UARTResetRxQueue(uart)
    /\ fifo' = <<>>
    /\ ret' = [op |-> "reset"]
    /\ underrun' = FALSE
    /\ UNCHANGED <<linkVars, nvmVars>>
    /\ UNCHANGED sel

ProcessPacket ==
    /\ ProcessPacketStep
    /\ UNCHANGED <<linkVars, nvmVars>>
    /\ UNCHANGED sel

Next ==
    \/ Receive
    \/ GetNextByte
    \/ GetOffsetByte
    \/ ResetRxQueue
    \/ ProcessPacket

Spec == Init /\ [][Next]_vars

(***************************************************************************)
(* The polling loop alone: bytes are drained into the queue, a decode is   *)
(* attempted, and the caller may reset the queue; nothing else pops.       *)
(***************************************************************************)
NextPoll ==
    \/ Receive
    \/ ProcessPacket
    \/ ResetRxQueue

SpecPoll == Init /\ [][NextPoll]_vars

(***************************************************************************)
(* The codec end to end: a frame built by ProtocolSendPacket travels over  *)
(* the wire, which may invert one bit, into a freshly reset receive queue, *)
(* and is decoded once all of it has arrived.                              *)
(***************************************************************************)
Payloads ==
    UNION {[1 .. n -> RxBytes] : n \in 0 .. MaxPayload}

CodecSend ==
    /\ ~req.sent
    /\ \E command \in RxBytes, data \in Payloads :
          /\ req' = [sent |-> TRUE, command |-> command, data |-> data,
                     dataSize |-> Len(data)]
          /\ tx' = <<ProtocolSendPacket(command, data, Len(data))>>
          /\ line' = ProtocolSendPacket(command, data, Len(data))
    /\ UNCHANGED <<flip, uartVars, nvmVars>>
    /\ UNCHANGED sel

CodecFlip ==
    /\ req.sent
    /\ flip = NoFlip
    /\ line = tx[1]
    /\ \E i \in 1 .. Len(line), k \in 0 .. 7 :
          /\ line' = [line EXCEPT ![i] = Xor(@, Pow2(k))]
          /\ flip' = [index |-> i, bit |-> k]
    /\ UNCHANGED <<req, tx, uartVars, nvmVars>>
    /\ UNCHANGED sel

CodecDeliver ==
    /\ line /= <<>>
    /\ ReadDataStep(Head(line), 1)
    /\ line' = Tail(line)
    /\ UNCHANGED <<req, tx, flip, nvmVars>>
    /\ UNCHANGED sel

CodecDecode ==
    /\ req.sent
    /\ line = <<>>
    /\ ret.op = "read"
    /\ ProcessPacketStep
    /\ UNCHANGED <<linkVars, nvmVars>>
    /\ UNCHANGED sel

NextCodec ==
    \/ CodecSend
    \/ CodecFlip
    \/ CodecDeliver
    \/ CodecDecode

SpecCodec == Init /\ [][NextCodec]_vars

(***************************************************************************)
(* The flash engine: WRITE_DATA packets handled one after the other, the   *)
(* loop of ProtocolFlashWrite one pass at a time.                          *)
(***************************************************************************)
\* byte i of the payload the host sends: AA BB CC DD EE FF 10 21 ...
PayloadByte(i) == (170 + 17 * i) % 256

\* the start addresses the host sends: the reset vector, the first
\* address past it, and both sides of each end of the bootloader
StartAddresses ==
    {0, 2, 4,
     BOOTLOADER_BOOTLOADER_START - 2, BOOTLOADER_BOOTLOADER_START,
     BOOTLOADER_APPLICATION_START - 2, BOOTLOADER_APPLICATION_START}

\* the validated WRITE_DATA packets: a 24-bit address, then the payload
WritePackets ==
    {[command  |-> PROTOCOL_CMD_WRITE_DATA,
      dataSize |-> 3 + n,
      data     |-> <<0, 0, a>> \o [i \in 1 .. n |-> PayloadByte(i - 1)],
      status   |-> PROTOCOL_PACKET_STATUS_OK] :
        a \in StartAddresses, n \in 0 .. MaxWriteLen}

\* bytes an element of packet->data past the decoded ones may read as
Stale(p, w) ==
    IF w.index + 5 < Len(p.data) THEN {0} ELSE {0, 255}

FlashWriteCall ==
    /\ fw.pc = "idle"
    /\ session.requests < MaxRequests
    /\ \E p \in WritePackets :
          LET e == FlashWriteEnter(flash, p, 0)
          IN  /\ packet' = p
              /\ fw' = e.fw
              /\ flash' = e.flash
              /\ nvmLog' = e.log
              /\ session' = [session EXCEPT
                    !.requests = @ + 1,
                    !.erases = IF e.erased THEN @ + 1 ELSE @,
                    !.everErased = @ \/ e.erased]
    /\ tx' = <<>>
    /\ UNCHANGED <<uartVars, req, line, flip, eeprom>>
    /\ UNCHANGED sel

FlashWriteLoop ==
    /\ fw.pc = "loop"
    /\ StrideLoopRuns(packet, fw)
    /\ \E g \in Stale(packet, fw), ok \in BOOLEAN :
          LET r == FlashWriteStride(flash, packet, fw, g, ok)
          IN  /\ fw' = r.fw
              /\ flash' = r.flash
              /\ nvmLog' = nvmLog \o r.log
    /\ UNCHANGED <<uartVars, linkVars, eeprom, packet, session>>
    /\ UNCHANGED sel

FlashWriteReturn ==
    /\ fw.pc = "loop"
    /\ ~StrideLoopRuns(packet, fw)
    /\ tx' = <<FlashWriteResponse(fw)>>
    /\ fw' = FwIdle
    /\ UNCHANGED <<uartVars, req, line, flip, flash, eeprom, packet,
                   nvmLog, session>>
    /\ UNCHANGED sel

\* a hardware reset between two requests: a new session with the UART
\* set up afresh and the selectors in their reset state, the same flash
HardwareReset ==
    /\ fw.pc = "idle"
    /\ session' = [session EXCEPT !.erases = 0]
    /\ uart' = UARTInit
    /\ ret' = [op |-> "init"]
    /\ fifo' = <<>>
    /\ underrun' = FALSE
    /\ sel' = SelAfterReset
    /\ UNCHANGED <<linkVars, flash, eeprom, packet, fw, nvmLog>>

NextFlash ==
    \/ FlashWriteCall
    \/ FlashWriteLoop
    \/ FlashWriteReturn
    \/ HardwareReset

SpecFlash == Init /\ [][NextFlash]_vars

(***************************************************************************)
(* The flash engine on the longest packets: one WRITE_DATA request whose   *)
(* dataSize is at the top of what the decoder's 8-bit dataSize can hold,   *)
(* so that the 8-bit payload cursor of ProtocolFlashWrite comes to its     *)
(* wrap.                                                                   *)
(***************************************************************************)
\* the largest dataSize ProtocolProcessPacket derives from a length byte
MaxDataSize == U8(255 - PROTOCOL_CONTROL_PACKET_SIZE)

\* the validated WRITE_DATA packets of the largest sizes
LongPackets ==
    {[command  |-> PROTOCOL_CMD_WRITE_DATA,
      dataSize |-> n,
      data     |-> <<0, 0, a>> \o [i \in 1 .. (n - 3) |-> PayloadByte(i - 1)],
      status   |-> PROTOCOL_PACKET_STATUS_OK] :
        a \in StartAddresses, n \in (MaxDataSize - MaxPayload) .. MaxDataSize}

LongWriteCall ==
    /\ fw.pc = "idle"
    /\ session.requests = 0
    /\ \E p \in LongPackets :
          LET e == FlashWriteEnter(flash, p, 0)
          IN  /\ packet' = p
              /\ fw' = e.fw
              /\ flash' = e.flash
              /\ nvmLog' = e.log
              /\ session' = [session EXCEPT
                    !.requests = @ + 1,
                    !.erases = IF e.erased THEN @ + 1 ELSE @,
                    !.everErased = @ \/ e.erased]
    /\ tx' = <<>>
    /\ UNCHANGED <<uartVars, req, line, flip, eeprom>>
    /\ UNCHANGED sel

NextLong ==
    \/ LongWriteCall
    \/ FlashWriteLoop
    \/ FlashWriteReturn

SpecLong == Init /\ [][NextLong]_vars

(***************************************************************************)
(* Serial-number provisioning: WRITE_SN packets handled one after the      *)
(* other.                                                                  *)
(***************************************************************************)
SnPackets ==
    {[command  |-> PROTOCOL_CMD_WRITE_SN,
      dataSize |-> 2,
      data     |-> <<msb, lsb>>,
      status   |-> PROTOCOL_PACKET_STATUS_OK] :
        msb \in RxBytes, lsb \in RxBytes}

WriteSerialNumber ==
    /\ session.requests < MaxRequests
    /\ \E p \in SnPackets :
          LET r == ProtocolWriteSerialNumber(eeprom, p, 0)
          IN  /\ packet' = p
              /\ eeprom' = r.eeprom
              /\ tx' = <<r.frame>>
              /\ nvmLog' =
                    IF r.wrote
                    THEN <<[op |-> "eeprom", cell |-> "CONFIG_SN_MSB",
                            value |-> r.eeprom.CONFIG_SN_MSB,
                            was |-> eeprom],
                           [op |-> "eeprom", cell |-> "CONFIG_SN_LSB",
                            value |-> r.eeprom.CONFIG_SN_LSB,
                            was |-> eeprom]>>
                    ELSE <<[op |-> "refused", was |-> eeprom]>>
              /\ session' = [session EXCEPT
                    !.requests = @ + 1,
                    !.snWrites = IF r.wrote THEN @ + 1 ELSE @]
    /\ UNCHANGED <<uartVars, req, line, flip, flash, fw>>
    /\ UNCHANGED sel

NextSN == WriteSerialNumber

SpecSN == Init /\ [][NextSN]_vars

(***************************************************************************)
(* Mode control: the operations of the transport, the decoder and the      *)
(* engine once ProtocolBC127Mode has run.  The handlers of the engine      *)
(* neither read nor write the receive queue and the operations of the      *)
(* transport neither read nor write program memory or the EEPROM, so a     *)
(* run exercises the ones on the state the others start from.              *)
(***************************************************************************)
BC127Mode ==
    /\ fw.pc = "idle"
    /\ sel' = ProtocolBC127Mode
    /\ UNCHANGED <<uartVars, linkVars, nvmVars>>

\* the serial lines are routed to the BC127
InPassthrough == sel = ProtocolBC127Mode

\* no request has been handled in this run
EngineUnused == session.requests = 0 /\ fw.pc = "idle"

\* the queue is as UARTInit left it
QueueUnused == ret.op = "init"

\* no WRITE_SN request has been handled last: such a request is the only
\* request of its run
NoSerialRequest == packet.command /= PROTOCOL_CMD_WRITE_SN

NextMode ==
    \/ BC127Mode
    \/ HardwareReset
    \/ InPassthrough /\ EngineUnused /\ Receive
    \/ InPassthrough /\ EngineUnused /\ GetNextByte
    \/ InPassthrough /\ EngineUnused /\ GetOffsetByte
    \/ InPassthrough /\ EngineUnused /\ ResetRxQueue
    \/ InPassthrough /\ EngineUnused /\ ProcessPacket
    \/ InPassthrough /\ QueueUnused /\ NoSerialRequest /\ FlashWriteCall
    \/ InPassthrough /\ QueueUnused /\ NoSerialRequest /\ FlashWriteLoop
    \/ InPassthrough /\ QueueUnused /\ NoSerialRequest /\ FlashWriteReturn
    \/ InPassthrough /\ QueueUnused /\ EngineUnused /\ WriteSerialNumber

SpecMode == Init /\ [][NextMode]_vars

(***************************************************************************)
(* Claims about the transport and the decoder (specification Spec).         *)
(***************************************************************************)
\* the byte ProtocolProcessPacket peeks at, one past the read cursor
PeekedLength(u, g) ==
    ReadSlot(u, (u.rxQueueReadCursor + 1) % UART_RX_QUEUE_SIZE, g)

\* C5: whenever the queue holds fewer than 2 bytes, or its occupancy
\* differs from the length byte at offset 1, ProtocolProcessPacket returns
\* INCOMPLETE and leaves storage, cursors and occupancy as they were.
C5_PartialFrameStable ==
    [][(/\ ProcessPacket
        /\ \/ uart.rxQueueSize < 2
           \/ \A g \in Garbage(uart) :
                  uart.rxQueueSize /= PeekedLength(uart, g))
       => (/\ ret'.packet.status = PROTOCOL_PACKET_STATUS_INCOMPLETE
           /\ uart' = uart)]_vars

\* C5 witness: a decode was attempted with fewer bytes queued (at least 2)
\* than the length byte declares; it answered INCOMPLETE
C5_Witness ==
    /\ ret.op = "process"
    /\ ret.packet.status = PROTOCOL_PACKET_STATUS_INCOMPLETE
    /\ uart.rxQueueSize >= 2
    /\ uart.rxQueueSize < PeekedLength(uart, 0)
    /\ PeekedLength(uart, 0) = PeekedLength(uart, 1)

\* C7 as claimed, and only for queues that never had a byte taken out
\* while empty: a pop returns the oldest byte that was stored and not yet
\* popped.
C7_PopsReturnOldest ==
    (ret.op = "pop" /\ ret.oldest /= <<>> /\ ~underrun)
        => ret.byte = ret.oldest[1]

\* C8 as claimed: both cursors are within [0, capacity) in every state.
C8_CursorsBelowCapacity ==
    /\ uart.rxQueueReadCursor \in 0 .. (UART_RX_QUEUE_SIZE - 1)
    /\ uart.rxQueueWriteCursor \in 0 .. (UART_RX_QUEUE_SIZE - 1)

\* C8 amended: the read cursor is within [0, capacity); the write cursor
\* is within [0, capacity], and equals the capacity exactly when the last
\* store went to the last slot (it wraps at the start of the next store).
C8_CursorsBounded ==
    /\ uart.rxQueueReadCursor \in 0 .. (UART_RX_QUEUE_SIZE - 1)
    /\ uart.rxQueueWriteCursor \in 0 .. UART_RX_QUEUE_SIZE

\* C8 witness: a byte has just been stored in the last slot, after the
\* cursors went around at least once
C8_Witness ==
    /\ ret.op = "read"
    /\ uart.rxQueueWriteCursor = UART_RX_QUEUE_SIZE
    /\ uart.rxQueueReadCursor = UART_RX_QUEUE_SIZE - 1
    /\ uart.rxQueueSize = 1

\* the hardware reports an overrun, framing or parity error in uxsta
ReportsError(uxsta) == \E k \in 1 .. 3 : Bit(uxsta, k) = 1

\* C14: a byte that arrives without error flag while the queue holds
\* UART_RX_QUEUE_SIZE unread bytes is discarded: storage, cursors, size
\* and timestamp stay as they were.
C14_PushAtCapacityDropped ==
    [][(/\ Receive
        /\ ~ReportsError(ret'.uxsta)
        /\ uart.rxQueueSize = UART_RX_QUEUE_SIZE)
       => uart' = uart]_vars

C19_ErroredByteDropped ==
    [][Receive =>
        /\ ReportsError(ret'.uxsta) => uart' = uart
        /\ (ret'.cleared \div 2) % 2 = 0
        /\ uart'.rxLastTimestamp /= uart.rxLastTimestamp
              => /\ ~ReportsError(ret'.uxsta)
                 /\ uart'.rxQueueSize = uart.rxQueueSize + 1]_vars

\* C19 witness: a byte with the overrun flag set was read while the queue
\* held bytes stored at an earlier time
C19_Witness ==
    /\ ret.op = "read"
    /\ ret.uxsta = 3
    /\ ret.cleared = 1
    /\ uart.rxQueueSize = 2
    /\ uart.rxLastTimestamp = 0

(***************************************************************************)
(* Claims about the codec end to end (specification SpecCodec).            *)
(***************************************************************************)
\* the transmitted frame is no longer than the receive queue
FrameFits == Len(tx[1]) <= UART_RX_QUEUE_SIZE

\* the freshly reset queue after UARTReadData has stored every byte of frame
RECURSIVE QueueHolding(_)
QueueHolding(frame) ==
    IF frame = <<>> THEN UARTInit
    ELSE UARTReadData(QueueHolding(SubSeq(frame, 1, Len(frame) - 1)),
                      frame[Len(frame)], 1, 0)

\* what ProtocolProcessPacket returns for the frame as it was transmitted
DecodedAsSent(g) == ProtocolProcessPacket(QueueHolding(tx[1]), g).packet

\* C3: for every command and every payload of at least one byte whose
\* frame fits the queue, decoding the bytes ProtocolSendPacket transmitted
\* yields status OK, the same command and the same payload, byte for byte.
C3_RoundTrip ==
    (/\ ret.op = "process"
     /\ flip = NoFlip
     /\ req.dataSize >= 1
     /\ FrameFits)
    => (/\ ret.packet.status = PROTOCOL_PACKET_STATUS_OK
        /\ ret.packet.command = req.command
        /\ ret.packet.dataSize = req.dataSize
        /\ ret.packet.data = req.data)

WirePayload == IF req.dataSize = 0 THEN <<0>> ELSE req.data

\* the length byte of that frame
WireLength == U8(Len(WirePayload) + PROTOCOL_DATA_INDEX_BEGIN)

\* C13: ProtocolSendPacket transmits the command, the length, every
\* payload byte unmodified (one zero byte for an empty payload), then the
\* checksum.
C13_WireLayout ==
    req.sent =>
        /\ Len(tx) = 1
        /\ Len(tx[1]) = Len(WirePayload) + 3
        /\ tx[1][1] = req.command
        /\ tx[1][2] = WireLength
        /\ SubSeq(tx[1], 3, Len(WirePayload) + 2) = WirePayload
        /\ tx[1][Len(tx[1])] =
              XorAll(Xor(req.command, WireLength), WirePayload)

\* C18: the last byte ProtocolSendPacket transmits is the XOR of the
\* command, the length byte and every payload byte, and the XOR of all
\* the bytes of the transmitted frame is 0.
C18_ChecksumClosesFrame ==
    req.sent =>
        /\ tx[1][Len(tx[1])] =
              XorAll(Xor(req.command, WireLength), WirePayload)
        /\ XorAll(0, tx[1]) = 0

(***************************************************************************)
(* Claims about the flash engine (SpecFlash).                              *)
(***************************************************************************)
\* the addresses no stride write may change: the bootloader and the
\* reset-vector area
ProtectedAddrs ==
    {a \in FlashAddrs :
        \/ a < 4
        \/ a >= BOOTLOADER_BOOTLOADER_START /\ a < BOOTLOADER_APPLICATION_START}

\* the stride writes of the handler that ran last
StrideWrites == {i \in 1 .. Len(nvmLog) : nvmLog[i].by = "stride"}

\* C1: no pass of the loop of ProtocolFlashWrite changes the contents of
\* an address of the bootloader or below 4, the second word of a dual-word
\* write included.
C1_StridesSpareProtected ==
    [][FlashWriteLoop => \A a \in ProtectedAddrs : flash'[a] = flash[a]]_vars

C4_Packet ==
    [command  |-> PROTOCOL_CMD_WRITE_DATA,
     dataSize |-> 9,
     data     |-> <<0, 0, 0, 170, 187, 204, 221, 238, 255>>,
     status   |-> PROTOCOL_PACKET_STATUS_OK]

\* ProtocolFlashWrite has returned from handling the packet of the scenario
C4_Handled == packet = C4_Packet /\ fw.pc = "idle" /\ tx /= <<>>

BootloaderAddrs ==
    {a \in FlashAddrs :
        a >= BOOTLOADER_BOOTLOADER_START /\ a < BOOTLOADER_APPLICATION_START}

\* the block of _FLASH_ROW * 16 addresses that starts at address
BlockAt(address) ==
    {a \in FlashAddrs : a >= address /\ a < address + FLASH_ROW * 16}

\* the starts of the blocks ProtocolFlashErase steps through
BlockStarts ==
    {b \in 0 .. BOOTLOADER_APPLICATION_END : b % (FLASH_ROW * 16) = 0}

\* the addresses the log says were erased
ErasedStarts(log) ==
    {log[i].address : i \in {j \in 1 .. Len(log) : log[j].op = "erase"}}

\* C11: a call of ProtocolFlashErase erases no block that overlaps the
\* bootloader, erases every block up to BOOTLOADER_APPLICATION_END that
\* does not, and leaves the contents of the bootloader unchanged.
C11_EraseSparesBootloader ==
    [][(FlashWriteCall /\ session'.erases = session.erases + 1)
       => (/\ \A b \in ErasedStarts(nvmLog') :
                 BlockAt(b) \cap BootloaderAddrs = {}
           /\ \A b \in BlockStarts :
                 BlockAt(b) \cap BootloaderAddrs = {}
                     => /\ b \in ErasedStarts(nvmLog')
                        /\ \A a \in BlockAt(b) :
                              a > 2 => flash'[a] = FLASH_ERASED
           /\ \A a \in BootloaderAddrs : flash'[a] = flash[a])]_vars

\* C11 witness: an erase has run on a memory that held a programmed
\* application; the bootloader holds what it held at the start
C11_Witness ==
    /\ fw.pc = "loop"
    /\ session.requests = 2
    /\ ErasedStarts(nvmLog) /= {}
    /\ \A a \in BootloaderAddrs : flash[a] = InitialFlash[a]
    /\ \A a \in BlockAt(BOOTLOADER_APPLICATION_START) :
          flash[a] = FLASH_ERASED

\* ProtocolFlashWrite has returned
FlashWriteHandled ==
    fw.pc = "idle" /\ tx /= <<>> /\ packet.command = PROTOCOL_CMD_WRITE_DATA

\* the stride writes of the handler that ran last that reported failure
FailedWrites == {i \in StrideWrites : ~nvmLog[i].ok}

\* C12: a low-level write that reports failure is the last operation of
\* its request; the request is answered with exactly one frame,
\* WRITE_DATA_RESPONSE_ERR if a write failed and WRITE_DATA_RESPONSE_OK
\* if none did.
C12_FailureStopsRequest ==
    /\ \A i \in FailedWrites : i = Len(nvmLog)
    /\ FlashWriteHandled =>
          /\ Len(tx) = 1
          /\ tx[1][1] = IF FailedWrites /= {}
                        THEN PROTOCOL_CMD_WRITE_DATA_RESPONSE_ERR
                        ELSE PROTOCOL_CMD_WRITE_DATA_RESPONSE_OK

\* C12 witness: the first write of a request failed with payload left
\* for a further stride, and the request was answered with ERR
C12_Witness ==
    /\ FlashWriteHandled
    /\ Cardinality(StrideWrites) = 1
    /\ FailedWrites /= {}
    /\ packet.dataSize > 9
    /\ WriteAddress(packet, 0) = BOOTLOADER_APPLICATION_START
    /\ tx = <<FlashWriteResponse([flashRes |-> 0])>>

\* address is in the bootloader or below 4
InProtectedRange(address) ==
    \/ address < 4
    \/ (address >= BOOTLOADER_BOOTLOADER_START
        /\ address < BOOTLOADER_APPLICATION_START)

\* the 3-byte words the payload of p holds, the last one maybe in part
WordsOf(p) == (p.dataSize - 3 + 2) \div 3

\* every word of p, taken as a stride of its own, starts in the bootloader
\* or below 4
SkippedThroughout(p) ==
    \A k \in 0 .. (WordsOf(p) - 1) :
        InProtectedRange(WriteAddress(p, 0) + 2 * k)

\* C17: a WRITE_DATA request with a non-zero start address whose every
\* stride falls in the bootloader or below 4 erases nothing, programs
\* nothing, leaves program memory as it was and is answered with
\* WRITE_DATA_RESPONSE_OK.
C17_SilentSkip ==
    [][(/\ FlashWriteCall \/ FlashWriteLoop \/ FlashWriteReturn
        /\ WriteAddress(packet', 0) /= 0
        /\ SkippedThroughout(packet'))
       => (/\ flash' = flash
           /\ nvmLog' = <<>>
           /\ fw'.flashRes = 1
           /\ FlashWriteReturn =>
                 tx' = <<<<PROTOCOL_CMD_WRITE_DATA_RESPONSE_OK, 3,
                           Xor(PROTOCOL_CMD_WRITE_DATA_RESPONSE_OK, 3)>>>>)]_vars

\* C17 witness: a request of three words that starts at the start of the
\* bootloader has been answered
C17_Witness ==
    /\ FlashWriteHandled
    /\ WriteAddress(packet, 0) = BOOTLOADER_BOOTLOADER_START
    /\ WordsOf(packet) = 3
    /\ SkippedThroughout(packet)
    /\ nvmLog = <<>>
    /\ tx[1][1] = PROTOCOL_CMD_WRITE_DATA_RESPONSE_OK

\* the loop pass just taken called FlashWriteDWORDAddress
StrideWroteNow == FlashWriteLoop /\ Len(nvmLog') = Len(nvmLog) + 1

\* the elements of packet->data a writing pass packs: index .. index + 5
PackedIndices(w) == w.index .. (w.index + 5)

\* C21: every byte ProtocolFlashWrite packs into a dual-word write is read
\* from packet->data at an index strictly below dataSize, whatever the
\* payload length.
C21_WritesUseReceivedPayload ==
    [][StrideWroteNow
       => \A i \in PackedIndices(fw) : i < packet.dataSize]_vars

\* C22: at every test of the loop of ProtocolFlashWrite the flash address
\* is the start address plus 2 for every 3-byte word the payload cursor has
\* passed, the cursor's 8-bit arithmetic included, so that the word at
\* position n is programmed at start + 2n or not at all.
C22_AddressCursorLockstep ==
    fw.pc = "loop" =>
        fw.address = WriteAddress(packet, 0) + 2 * ((fw.index - 3) \div 3)

\* C10: between two hardware resets ProtocolFlashErase runs at most once.
C10_EraseOncePerSession == session.erases <= 1

(***************************************************************************)
(* Claims about serial-number provisioning (SpecSN).                       *)
(***************************************************************************)
SnResponseOk ==
    <<PROTOCOL_CMD_WRITE_SN_RESPONSE_OK, 3,
      Xor(PROTOCOL_CMD_WRITE_SN_RESPONSE_OK, 3)>>

SnResponseErr ==
    <<PROTOCOL_CMD_WRITE_SN_RESPONSE_ERR, 3,
      Xor(PROTOCOL_CMD_WRITE_SN_RESPONSE_ERR, 3)>>

\* C9 as stated: of two calls with different payloads, starting from the
\* unset serial number, the second changes no cell and is answered with
\* WRITE_SN_RESPONSE_ERR; the serial number is written at most once.
C9_SecondCallRefused ==
    /\ session.snWrites <= 1
    /\ (/\ session.requests = 2
        /\ packet.data /= <<nvmLog[1].was.CONFIG_SN_MSB,
                             nvmLog[1].was.CONFIG_SN_LSB>>)
       => (nvmLog[1].op = "refused" /\ tx = <<SnResponseErr>>)

\* C9 as the code has it: a call that finds both cells zero stores its
\* payload and answers WRITE_SN_RESPONSE_OK; a call that finds a non-zero
\* cell changes neither cell and answers WRITE_SN_RESPONSE_ERR. So a
\* serial number other than 00 00 is written once and kept.
C9_NonZeroWrittenOnce ==
    [][WriteSerialNumber =>
        IF eeprom.CONFIG_SN_MSB = 0 /\ eeprom.CONFIG_SN_LSB = 0
        THEN /\ eeprom' = [CONFIG_SN_MSB |-> packet'.data[1],
                           CONFIG_SN_LSB |-> packet'.data[2]]
             /\ tx' = <<SnResponseOk>>
        ELSE /\ eeprom' = eeprom
             /\ tx' = <<SnResponseErr>>]_vars

\* C9 witness: the second of two calls with different payloads was refused
C9_Witness ==
    /\ session.requests = 2
    /\ session.snWrites = 1
    /\ packet.data /= <<eeprom.CONFIG_SN_MSB, eeprom.CONFIG_SN_LSB>>
    /\ nvmLog[1].op = "refused"
    /\ nvmLog[1].was = eeprom
    /\ tx = <<SnResponseErr>>

(***************************************************************************)
(* Claims about mode control (SpecMode).                                   *)
(***************************************************************************)
\* C16: ProtocolBC127Mode leaves the MCU selector disabled and the BC127
\* selector enabled, and from then on no step other than a hardware reset
\* changes either selector.
C16_PassthroughIrreversible ==
    [][/\ BC127Mode =>
            /\ sel'.UART_SEL_MCU_MODE = UART_SEL_MODE_DISABLE
            /\ sel'.UART_SEL_BT_MODE = UART_SEL_MODE_ENABLE
       /\ (/\ sel.UART_SEL_MCU_MODE = UART_SEL_MODE_DISABLE
           /\ sel.UART_SEL_BT_MODE = UART_SEL_MODE_ENABLE
           /\ ~HardwareReset)
          => sel' = sel]_vars

\* C16 witness: with the lines routed to the BC127, a WRITE_DATA request
\* has erased and programmed memory and has been answered
C16_Witness ==
    /\ sel.UART_SEL_MCU_MODE = UART_SEL_MODE_DISABLE
    /\ sel.UART_SEL_BT_MODE = UART_SEL_MODE_ENABLE
    /\ FlashWriteHandled
    /\ session.everErased
    /\ StrideWrites /= {}

\* C20: whenever ProtocolProcessPacket proceeds past the length check it
\* pops exactly as many bytes as were buffered: afterwards the occupancy is 0
\* and the read cursor equals the write cursor modulo the capacity.
C20_DecodeNeverReadsAhead ==
    [][(ProcessPacket /\ FrameBuffered(uart, ret'.g))
       => (/\ PopsOfDecode(uart, ret'.g) = uart.rxQueueSize
           /\ ~Underruns(uart, ret'.g)
           /\ uart'.rxQueueSize = 0
           /\ uart'.rxQueueReadCursor
                  = uart'.rxQueueWriteCursor % UART_RX_QUEUE_SIZE)]_vars

\* the queue holds at least the two control bytes, and more bytes than the
\* length byte at offset 1 from the read cursor declares
Overshoot(u) ==
    /\ u.rxQueueSize >= 2
    /\ \A g \in Garbage(u) : u.rxQueueSize > PeekedLength(u, g)

\* C23: once the queue holds more bytes than the length byte at offset 1
\* declares, a call of ProtocolProcessPacket returns INCOMPLETE and consumes
\* nothing, and no byte pushed afterwards makes the queue decodable: only
\* UARTResetRxQueue ends the overshoot.
C23_NoResyncAfterOvershoot ==
    [][(Overshoot(uart) /\ (Receive \/ ProcessPacket))
       => (/\ ProcessPacket =>
                 (/\ ret'.packet.status = PROTOCOL_PACKET_STATUS_INCOMPLETE
                  /\ uart' = uart)
           /\ \A g \in Garbage(uart') : ~FrameBuffered(uart', g))]_vars

\* the observation fifo holds as many bytes as the queue counts
FifoMatchesSize == Len(fifo) = uart.rxQueueSize

=============================================================================
